---------------------------- MODULE Spec2Model ----------------------------
(***************************************************************************)
(* A model of pgcat's src/messages.rs: the one-off protocol message        *)
(* encoders, the startup parameter parser and the frame reader.            *)
(*                                                                         *)
(* Bytes are the integers 0..255.  A Rust String is the sequence of its    *)
(* characters' code points; a BytesMut / Vec<u8> is a sequence of bytes.   *)
(* A HashMap<String, String> is a function from a set of strings to        *)
(* strings.  A panic is an outcome of its own (kind "panic"): it is        *)
(* neither Ok nor one of the values of crate::errors::Error.               *)
(*                                                                         *)
(* Three specifications share the variables:                               *)
(*   Spec     parse_startup applied to a byte buffer,                      *)
(*   SpecRead read_message called repeatedly on one stream,                *)
(*   SpecEnc  the seven encoders writing to one stream, and parse_startup  *)
(*            applied to what startup wrote.                               *)
(***************************************************************************)
EXTENDS Integers, Sequences, FiniteSets

VARIABLES
    \* parse_startup
    input,      \* the BytesMut handed to parse_startup
    ppc,        \* "call" before the call, "done" after it
    parsed,     \* what the call returned
    \* read_message
    sent,       \* the complete chunks the peer put on the wire, in order
    tail,       \* the bytes of a last, cut-off chunk before the stream ended
    pos,        \* how many bytes of the wire have been consumed
    rpc,        \* where the reader is: "read_u8", "read_i32", "read_exact", "closed"
    code,       \* read_message's local `code`
    len,        \* read_message's local `len`
    start,      \* pos when the call in progress began
    returned,   \* one record per finished call: where it started, what it returned
    \* encoders
    out,        \* one record per write_all that reached the stream
    broken,     \* the stream fails every write from now on
    wret,       \* what the last encoder call returned
    reparsed    \* parse_startup's result on a written startup packet

vars == <<input, ppc, parsed, sent, tail, pos, rpc, code, len, start, returned,
          out, broken, wret, reparsed>>

parseVars == <<input, ppc, parsed>>
readVars == <<sent, tail, pos, rpc, code, len, start, returned>>
encVars == <<out, broken, wret, reparsed>>

-----------------------------------------------------------------------------
(* Bounds of the model. *)

MaxPieces == 5
MaxChunks == 3
MaxWrites == 2

-----------------------------------------------------------------------------
(* Sequences and text. *)

RECURSIVE Flatten(_)
Flatten(ss) == IF ss = <<>> THEN <<>> ELSE Head(ss) \o Flatten(Tail(ss))

SeqsUpTo(S, n) == UNION {[1..k -> S] : k \in 0..n}

\* b"user", b"database" as bytes; "user", "database" as Strings have the same
\* numbers as code points.
UserKey == <<117, 115, 101, 114>>
DatabaseKey == <<100, 97, 116, 97, 98, 97, 115, 101>>

\* `c as char` for c: u8 is the character whose code point is c.
AsChar(c) == c

\* str::as_bytes: the UTF-8 encoding of a string (code points below 256 here).
Utf8Char(cp) == IF cp < 128 THEN <<cp>> ELSE <<192 + (cp \div 64), 128 + (cp % 64)>>

RECURSIVE as_bytes(_)
as_bytes(s) == IF s = <<>> THEN <<>> ELSE Utf8Char(Head(s)) \o as_bytes(Tail(s))

\* The mutant that keeps the value already there.
MapInsertFirstWins(m, k, v) ==
    [x \in DOMAIN m \cup {k} |-> IF x \in DOMAIN m THEN m[x] ELSE v]

\* HashMap::insert: a later insert of the same key replaces the value.
MapInsert(m, k, v) ==
    [x \in DOMAIN m \cup {k} |-> IF x = k THEN v ELSE m[x]]

EmptyMap == <<>>

-----------------------------------------------------------------------------
(* parse_startup *)

POk(m) == [kind |-> "Ok", why |-> "", map |-> m]
PBadStartup == [kind |-> "ClientBadStartup", why |-> "", map |-> EmptyMap]
PPanic(why) == [kind |-> "panic", why |-> why, map |-> EmptyMap]
PNone == [kind |-> "none", why |-> "", map |-> EmptyMap]

\* Lines 94-97: the inner loop, entered with the byte c just taken.  get_u8 on
\* an empty buffer panics.
RECURSIVE ScanToken(_, _, _)
ScanToken(c, bytes, tmp) ==
    IF c = 0 THEN [panic |-> FALSE, bytes |-> bytes, tmp |-> tmp]
    ELSE IF bytes = <<>> THEN [panic |-> TRUE, bytes |-> bytes, tmp |-> tmp]
    ELSE ScanToken(Head(bytes), Tail(bytes), Append(tmp, AsChar(c)))

\* Lines 90-103: the outer loop.
RECURSIVE ScanAll(_, _, _)
ScanAll(bytes, buf, tmp) ==
    IF bytes = <<>> THEN [panic |-> FALSE, buf |-> buf]
    ELSE LET t == ScanToken(Head(bytes), Tail(bytes), tmp)
         IN  IF t.panic THEN [panic |-> TRUE, buf |-> buf]
             ELSE IF Len(t.tmp) > 0
                  THEN ScanAll(t.bytes, Append(buf, t.tmp), <<>>)
                  ELSE ScanAll(t.bytes, buf, t.tmp)

\* Line 107.
OddTokens(buf) == Len(buf) % 2 # 0 /\ Len(buf) >= 2

\* Lines 111-117: buf[i + 1] past the end of buf panics.
RECURSIVE InsertPairs(_, _, _)
InsertPairs(buf, i, result) ==
    IF ~(i < Len(buf)) THEN [panic |-> FALSE, map |-> result]
    ELSE IF i + 1 >= Len(buf) THEN [panic |-> TRUE, map |-> result]
    ELSE InsertPairs(buf, i + 2, MapInsert(result, buf[i + 1], buf[i + 2]))

\* The mutant that lost the check of line 121.
ContainsUserAlways(result) == TRUE

\* Line 121.
ContainsUser(result) == UserKey \in DOMAIN result

parse_startup(bytes) ==
    LET s == ScanAll(bytes, <<>>, <<>>)
    IN  IF s.panic THEN PPanic("get_u8 past the end")
        ELSE IF OddTokens(s.buf) THEN PBadStartup
        ELSE LET r == InsertPairs(s.buf, 0, EmptyMap)
             IN  IF r.panic THEN PPanic("index out of bounds")
                 ELSE IF ~ContainsUser(r.map) THEN PBadStartup
                 ELSE POk(r.map)

\* The buffers parse_startup is applied to: up to MaxPieces pieces, each a
\* terminated or unterminated fragment.
Pieces ==
    { UserKey \o <<0>>, <<97, 0>>, <<98, 0>>, <<0>>, <<97>> }

Inputs == {Flatten(ps) : ps \in SeqsUpTo(Pieces, MaxPieces)}

IdleParse == input = <<>> /\ ppc = "idle" /\ parsed = PNone
IdleRead ==
    /\ sent = <<>> /\ tail = <<>> /\ pos = 0 /\ rpc = "idle"
    /\ code = 0 /\ len = 0 /\ start = 0 /\ returned = <<>>
IdleEnc == out = <<>> /\ broken = FALSE /\ wret = "none" /\ reparsed = <<>>

Init ==
    /\ input \in Inputs
    /\ ppc = "call"
    /\ parsed = PNone
    /\ IdleRead
    /\ IdleEnc

ParseStartup ==
    /\ ppc = "call"
    /\ parsed' = parse_startup(input)
    /\ ppc' = "done"
    /\ UNCHANGED <<input, readVars, encVars>>

Next == ParseStartup

Spec == Init /\ [][Next]_vars

-----------------------------------------------------------------------------
(* What the parser is specified against: the input split at its null bytes. *)

\* The segments between the null bytes of s, the one after the last null byte
\* included.
RECURSIVE RefSplit(_)
RefSplit(s) ==
    IF \A i \in 1..Len(s) : s[i] # 0 THEN <<s>>
    ELSE LET k == CHOOSE i \in 1..Len(s) : s[i] = 0 /\ \A j \in 1..(i - 1) : s[j] # 0
         IN  <<SubSeq(s, 1, k - 1)>> \o RefSplit(SubSeq(s, k + 1, Len(s)))

NonEmpty(t) == t # <<>>

RefTokens(s) == SelectSeq(RefSplit(s), NonEmpty)

\* The scan reaches the end of the input: every token is null-terminated.
Terminated(s) == s = <<>> \/ s[Len(s)] = 0

RefNames(toks) == {toks[2 * i - 1] : i \in 1..(Len(toks) \div 2)}

RefLast(toks, n) ==
    CHOOSE i \in 1..(Len(toks) \div 2) :
        /\ toks[2 * i - 1] = n
        /\ \A j \in (i + 1)..(Len(toks) \div 2) : toks[2 * j - 1] # n

RefMap(toks) == [n \in RefNames(toks) |-> toks[2 * RefLast(toks, n)]]

\* C3: whenever the scan of the input yields an odd number of non-empty
\* null-terminated tokens, parse_startup fails with ClientBadStartup.
C3_OddTokensBadStartup ==
    (ppc = "done" /\ Terminated(input) /\ Len(RefTokens(input)) % 2 = 1)
        => parsed = PBadStartup

\* C6: for every input, parse_startup returns a mapping or ClientBadStartup;
\* it never reads past the end of its input (get_u8 on an empty buffer) and
\* never indexes a token that does not exist.
C6_ParseNeverPanics ==
    ppc = "done" => parsed.kind \in {"Ok", "ClientBadStartup"}

\* C7: an even number of tokens (zero included) with no "user" in a name
\* position fails with ClientBadStartup; every Ok mapping has the key "user".
C7_NoUserBadStartup ==
    ppc = "done" =>
        /\ ( /\ Terminated(input)
             /\ Len(RefTokens(input)) % 2 = 0
             /\ UserKey \notin RefNames(RefTokens(input)) )
           => parsed = PBadStartup
        /\ parsed.kind = "Ok" => UserKey \in DOMAIN parsed.map

\* C7's case: two tokens, "user" only in the value position, rejected.
C7_Witness ==
    /\ ppc = "done"
    /\ Terminated(input)
    /\ RefTokens(input) = <<<<97>>, UserKey>>
    /\ parsed = PBadStartup

\* C10: whenever parse_startup returns Ok, the mapping is the one obtained by
\* splitting the input at null bytes, dropping the empty tokens, pairing the
\* rest positionally and letting a later pair with the same name overwrite.
C10_OkMapIsReference ==
    (ppc = "done" /\ parsed.kind = "Ok") => parsed.map = RefMap(RefTokens(input))

\* C10's case: an Ok result on an input with consecutive nulls and the same
\* name twice with different values.
C10_Witness ==
    /\ ppc = "done"
    /\ parsed.kind = "Ok"
    /\ \E i \in 1..(Len(input) - 1) : input[i] = 0 /\ input[i + 1] = 0
    /\ LET toks == RefTokens(input)
       IN  \E i, j \in 1..(Len(toks) \div 2) :
               i < j /\ toks[2 * i - 1] = toks[2 * j - 1] /\ toks[2 * i] # toks[2 * j]

-----------------------------------------------------------------------------
(* Integers on the wire and in memory. *)

\* Buf::get_i32 / AsyncReadExt::read_i32: four bytes, big-endian, signed.
GetI32(b) ==
    LET low == b[2] * 65536 + b[3] * 256 + b[4]
    IN  IF b[1] < 128 THEN b[1] * 16777216 + low
        ELSE (b[1] - 256) * 16777216 + low

\* The mutant that writes the four bytes in the opposite order.
PutI32LittleEndian(n) ==
    LET rest == n % 16777216
    IN  <<rest % 256, (rest \div 256) % 256, rest \div 65536, (n \div 16777216) % 256>>

\* BufMut::put_i32: four bytes, big-endian, two's complement.
PutI32(n) ==
    LET rest == n % 16777216
    IN  <<(n \div 16777216) % 256, rest \div 65536, (rest \div 256) % 256, rest % 256>>

\* A usize of a 64-bit target, as four 16-bit limbs, most significant first.
\* `len as usize` for len: i32 sign-extends.
AsUsize(n) ==
    IF n >= 0 THEN <<0, 0, n \div 65536, n % 65536>>
    ELSE LET u == (n + 2147483647) + 1
         IN  <<65535, 65535, 32768 + (u \div 65536), u % 65536>>

\* u - 1 from limb k down, borrowing; below zero it wraps to all ones.
RECURSIVE UsizeBorrow(_, _)
UsizeBorrow(u, k) ==
    IF u[k] > 0 THEN [u EXCEPT ![k] = @ - 1]
    ELSE IF k = 1 THEN [u EXCEPT ![k] = 65535]
    ELSE UsizeBorrow([u EXCEPT ![k] = 65535], k - 1)

\* u - 4: the wrapped difference, and whether it went below zero.
UsizeSub4(u) ==
    IF u[4] >= 4 THEN [val |-> [u EXCEPT ![4] = @ - 4], underflow |-> FALSE]
    ELSE [val |-> UsizeBorrow([u EXCEPT ![4] = @ + 65536 - 4], 3),
          underflow |-> u[1] = 0 /\ u[2] = 0 /\ u[3] = 0]

\* A size above isize::MAX: Vec's allocation panics with "capacity overflow".
ExceedsIsizeMax(u) == u[1] >= 32768

UsizeToInt(u) == u[3] * 65536 + u[4]

\* The mutant that sizes the payload buffer by len, not len - 4.
PayloadSizeWholeLen(n, overflow_checks) ==
    [panic |-> n < 0, why |-> "capacity overflow", n |-> IF n < 0 THEN 0 ELSE n]

\* Line 242: vec![0u8; len as usize - 4].  With overflow checks (a debug
\* build) the subtraction below zero panics; without them it wraps and the
\* allocation of more than isize::MAX bytes panics.
PayloadSize(n, overflow_checks) ==
    LET d == UsizeSub4(AsUsize(n))
    IN  IF d.underflow /\ overflow_checks
        THEN [panic |-> TRUE, why |-> "attempt to subtract with overflow", n |-> 0]
        ELSE IF ExceedsIsizeMax(d.val)
        THEN [panic |-> TRUE, why |-> "capacity overflow", n |-> 0]
        ELSE [panic |-> FALSE, why |-> "", n |-> UsizeToInt(d.val)]

-----------------------------------------------------------------------------
(* read_message *)

ROk(bytes) == [kind |-> "Ok", why |-> "", bytes |-> bytes]
RSocketError == [kind |-> "SocketError", why |-> "", bytes |-> <<>>]
RPanic(why) == [kind |-> "panic", why |-> why, bytes |-> <<>>]

\* What a read on the stream can fail with once its bytes have run out.
IoErrors == {"UnexpectedEof", "ConnectionReset"}

\* The mutant that takes the end of the stream for an empty, successful read.
MapIoErrEofOk(e) == IF e = "UnexpectedEof" THEN ROk(<<>>) ELSE RSocketError

\* Lines 234, 239, 246: Err(_) => return Err(Error::SocketError).
MapIoErr(e) == RSocketError

\* Everything the stream delivers before it ends.
Wire == Flatten(sent) \o tail

\* read_exact (and read_u8, read_i32): n bytes or an error; on an error the
\* bytes that did arrive are consumed and lost.
ReadExact(w, p, n) ==
    IF p + n <= Len(w)
    THEN [ok |-> TRUE, buf |-> SubSeq(w, p + 1, p + n), pos |-> p + n]
    ELSE [ok |-> FALSE, buf |-> <<>>, pos |-> Len(w)]

\* The call returns r with the stream at p; on Ok the caller calls again.
Return(r, p) ==
    /\ returned' = Append(returned, [start |-> start, ret |-> r])
    /\ pos' = p
    /\ start' = p
    /\ code' = 0
    /\ len' = 0
    /\ rpc' = IF r.kind = "Ok" THEN "read_u8" ELSE "closed"

\* Lines 232-235.
ReadU8 ==
    /\ rpc = "read_u8"
    /\ LET r == ReadExact(Wire, pos, 1)
       IN  IF r.ok
           THEN /\ code' = r.buf[1]
                /\ pos' = r.pos
                /\ rpc' = "read_i32"
                /\ UNCHANGED <<len, start, returned>>
           ELSE \E e \in IoErrors : Return(MapIoErr(e), r.pos)
    /\ UNCHANGED <<sent, tail, parseVars, encVars>>

\* Lines 237-240.
ReadI32 ==
    /\ rpc = "read_i32"
    /\ LET r == ReadExact(Wire, pos, 4)
       IN  IF r.ok
           THEN /\ len' = GetI32(r.buf)
                /\ pos' = r.pos
                /\ rpc' = "read_exact"
                /\ UNCHANGED <<code, start, returned>>
           ELSE \E e \in IoErrors : Return(MapIoErr(e), r.pos)
    /\ UNCHANGED <<sent, tail, parseVars, encVars>>

\* Lines 242-255.
ReadPayload ==
    /\ rpc = "read_exact"
    /\ \E overflow_checks \in BOOLEAN :
        LET sz == PayloadSize(len, overflow_checks)
        IN  IF sz.panic THEN Return(RPanic(sz.why), pos)
            ELSE LET r == ReadExact(Wire, pos, sz.n)
                 IN  IF r.ok
                     THEN Return(ROk(<<code>> \o PutI32(len) \o r.buf), r.pos)
                     ELSE \E e \in IoErrors : Return(MapIoErr(e), r.pos)
    /\ UNCHANGED <<sent, tail, parseVars, encVars>>

\* Frames as the protocol defines them: tag, length, length - 4 payload bytes.
WellFormed ==
    { <<81, 0, 0, 0, 4>>,
      <<90, 0, 0, 0, 5, 73>>,
      <<68, 0, 0, 0, 6, 1, 2>>,
      <<112, 0, 0, 0, 7, 0, 255, 0>> }

\* Headers whose length field is 3, 0, -1, i32::MIN, and 256 with no payload.
Malformed ==
    { <<88, 0, 0, 0, 3>>,
      <<88, 0, 0, 0, 0>>,
      <<88, 255, 255, 255, 255>>,
      <<88, 128, 0, 0, 0>>,
      <<88, 0, 0, 1, 0>> }

Chunks == WellFormed \cup Malformed

\* What arrived of a last frame when the stream ended: nothing, the tag, a
\* part of the length, a part of the payload.
Tails == { <<>>, <<81>>, <<81, 0, 0>>, <<68, 0, 0, 0, 6, 1>> }

InitRead ==
    /\ sent \in SeqsUpTo(Chunks, MaxChunks)
    /\ tail \in Tails
    /\ pos = 0
    /\ rpc = "read_u8"
    /\ code = 0
    /\ len = 0
    /\ start = 0
    /\ returned = <<>>
    /\ IdleParse
    /\ IdleEnc

NextRead == ReadU8 \/ ReadI32 \/ ReadPayload

SpecRead == InitRead /\ [][NextRead]_vars

\* The call that started at s found a whole header on the wire.
HasHeader(s) == s + 5 <= Len(Wire)

\* The length field of the frame at s is not negative.
FieldNonNeg(s) == Wire[s + 2] < 128

\* Its value, when it is not negative.
Field(s) == Wire[s + 2] * 16777216 + Wire[s + 3] * 65536 + Wire[s + 4] * 256 + Wire[s + 5]

FieldBelow4(s) == ~FieldNonNeg(s) \/ Field(s) < 4

\* The stream position after call k.
After(k) == IF k < Len(returned) THEN returned[k + 1].start ELSE start

\* C4: a call that finds tag, length N >= 4 and N - 4 payload bytes on the
\* stream returns Ok with N + 1 bytes: the tag, N big-endian, those payload
\* bytes.
C4_FrameReturnedWhole ==
    \A k \in 1..Len(returned) :
        LET s == returned[k].start
        IN  (HasHeader(s) /\ FieldNonNeg(s) /\ Field(s) >= 4 /\ s + 1 + Field(s) <= Len(Wire))
                => LET r == returned[k].ret
                   IN  /\ r.kind = "Ok"
                       /\ Len(r.bytes) = Field(s) + 1
                       /\ r.bytes[1] = Wire[s + 1]
                       /\ SubSeq(r.bytes, 2, 5) = SubSeq(Wire, s + 2, s + 5)
                       /\ SubSeq(r.bytes, 6, Field(s) + 1) = SubSeq(Wire, s + 6, s + 1 + Field(s))

\* C4's case: a frame of length 6 read whole.
C4_Witness ==
    \E k \in 1..Len(returned) :
        /\ HasHeader(returned[k].start)
        /\ FieldNonNeg(returned[k].start)
        /\ Field(returned[k].start) = 6
        /\ returned[k].ret = ROk(<<68, 0, 0, 0, 6, 1, 2>>)

\* C5: a length field below 4 is treated as malformed: the call fails with a
\* typed error; it neither returns a frame nor computes a payload size from it.
C5_LengthBelow4Malformed ==
    \A k \in 1..Len(returned) :
        (HasHeader(returned[k].start) /\ FieldBelow4(returned[k].start))
            => returned[k].ret.kind \notin {"Ok", "panic"}

\* C8: when the stream begins with well-formed frames f1..fk, the first k
\* calls return f1..fk in order, call i consuming exactly the bytes of fi, and
\* the reader does not stop before it has returned them.
C8_FramesInOrder ==
    \A k \in 1..Len(sent) :
        (\A j \in 1..k : sent[j] \in WellFormed)
            => /\ k <= Len(returned)
                  => /\ returned[k].ret = ROk(sent[k])
                     /\ returned[k].start = Len(Flatten(SubSeq(sent, 1, k - 1)))
                     /\ After(k) = returned[k].start + Len(sent[k])
               /\ rpc = "closed" => k <= Len(returned)

\* C8's case: three frames, not all the same, returned by three calls.
C8_Witness ==
    /\ Len(sent) = 3
    /\ \A j \in 1..3 : sent[j] \in WellFormed
    /\ sent[1] # sent[2]
    /\ Len(sent[3]) > 5
    /\ Len(returned) >= 3
    /\ returned[3].ret.kind = "Ok"

\* The stream ended inside the frame that starts at s: before the tag, inside
\* the length, or after a strict prefix of the payload.
EndsInside(s) ==
    \/ ~HasHeader(s)
    \/ FieldNonNeg(s) /\ Field(s) >= 4 /\ s + 1 + Field(s) > Len(Wire)

\* C9: a call during which the stream ends returns SocketError and no bytes;
\* a call returns Ok only after reading tag, length and all length - 4
\* payload bytes.
C9_NoPartialFrame ==
    \A k \in 1..Len(returned) :
        LET s == returned[k].start
        IN  /\ EndsInside(s) => returned[k].ret = RSocketError
            /\ returned[k].ret.kind = "Ok"
                  => /\ HasHeader(s) /\ FieldNonNeg(s) /\ Field(s) >= 4
                     /\ s + 1 + Field(s) <= Len(Wire)
                     /\ After(k) = s + 1 + Field(s)

\* C9's case: the stream ended after one of the two payload bytes.
C9_Witness ==
    \E k \in 1..Len(returned) :
        LET s == returned[k].start
        IN  /\ HasHeader(s) /\ FieldNonNeg(s) /\ Field(s) = 6
            /\ Len(Wire) = s + 6
            /\ returned[k].ret = RSocketError

-----------------------------------------------------------------------------
(* The encoders. *)

\* The byte strings of the source's literals.
MD5_PREFIX == <<109, 100, 53>>
FATAL == <<70, 65, 84, 65, 76>>
SQLSTATE_57P01 == <<53, 55, 80, 48, 49>>
TERMINATING ==
    <<116, 101, 114, 109, 105, 110, 97, 116, 105, 110, 103, 32, 99, 111, 110, 110, 101, 99, 116, 105, 111, 110, 32, 100, 117, 101, 32, 116, 111, 32, 97, 100, 109, 105, 110, 105, 115, 116, 114, 97, 116, 111, 114, 32, 99, 111, 109, 109, 97, 110, 100>>
SET_SHARDING_KEY == <<83, 69, 84, 32, 83, 72, 65, 82, 68, 73, 78, 71, 32, 75, 69, 89>>

\* The arguments the encoders are called with.
I32Args == {0, -1, 305419896}
StrArgs == {<<>>, <<97>>, UserKey, <<233>>}
Messages == {<<>>, SET_SHARDING_KEY}
Salts == {<<1, 2, 3, 4>>}

\* Md5::finalize: sixteen bytes, a function of the input that is not computed
\* here; the callers take any of these.
Digests ==
    { [i \in 1..16 |-> 0], [i \in 1..16 |-> 255], [i \in 1..16 |-> 16 * i - 7] }

\* format!("{:x}", digest): two lowercase hexadecimal digits per byte.
HexDigit(n) == IF n < 10 THEN 48 + n ELSE 87 + n

RECURSIVE Hex(_)
Hex(d) ==
    IF d = <<>> THEN <<>>
    ELSE <<HexDigit(Head(d) \div 16), HexDigit(Head(d) % 16)>> \o Hex(Tail(d))

\* Lines 17-21.
auth_ok_bytes == <<82>> \o PutI32(8) \o PutI32(0)

\* Lines 33-36.
backend_key_data_bytes(backend_id, secret_key) ==
    <<75>> \o PutI32(12) \o PutI32(backend_id) \o PutI32(secret_key)

\* Lines 43-47.
ready_for_query_bytes == <<90>> \o PutI32(5) \o <<73>>

\* Lines 55-75.
startup_bytes(user, database) ==
    LET bytes == PutI32(196608)
                 \o UserKey \o <<0>> \o as_bytes(user) \o <<0>>
                 \o DatabaseKey \o <<0>> \o as_bytes(database) \o <<0>>
                 \o <<0>>
        length == Len(bytes) + 4
    IN  PutI32(length) \o bytes

\* Lines 148-158, final being the second pass's digest.
md5_password_bytes(final) ==
    LET password == MD5_PREFIX \o Hex(final) \o <<0>>
    IN  <<112>> \o PutI32(Len(password) + 4) \o password

\* Lines 170-183.
custom_protocol_response_ok_bytes(message) ==
    LET set_complete == as_bytes(message) \o <<0>>
        length == Len(set_complete) + 4
    IN  <<67>> \o PutI32(length) \o set_complete \o <<90>> \o PutI32(5) \o <<73>>

\* Lines 195-209: the length is taken from res, which holds only the tag.
shutting_down_bytes ==
    LET notice == <<83>> \o FATAL \o <<0>>
                  \o <<86>> \o FATAL \o <<0>>
                  \o <<67>> \o SQLSTATE_57P01 \o <<0>>
                  \o <<77>> \o TERMINATING
        res == <<78>>
    IN  res \o PutI32(Len(res) + 4) \o notice

WRec(op, user, database, bytes) ==
    [op |-> op, user |-> user, database |-> database, bytes |-> bytes]

\* write_all / write_all_half, lines 215-228, and startup's own write, lines
\* 77-80: the whole buffer, or SocketError.  (Each encoder is called while
\* fewer than MaxWrites buffers have been written.)
WriteAll(rec) ==
    /\ IF broken
       THEN wret' = "SocketError" /\ UNCHANGED out
       ELSE wret' = "Ok" /\ out' = Append(out, rec)
    /\ UNCHANGED <<broken, reparsed, parseVars, readVars>>

AuthOk ==
    /\ Len(out) < MaxWrites
    /\ WriteAll(WRec("auth_ok", <<>>, <<>>, auth_ok_bytes))

BackendKeyData ==
    /\ Len(out) < MaxWrites
    /\ \E backend_id \in I32Args, secret_key \in I32Args :
        WriteAll(WRec("backend_key_data", <<>>, <<>>,
                      backend_key_data_bytes(backend_id, secret_key)))

ReadyForQuery ==
    /\ Len(out) < MaxWrites
    /\ WriteAll(WRec("ready_for_query", <<>>, <<>>, ready_for_query_bytes))

Startup ==
    /\ Len(out) < MaxWrites
    /\ \E user \in StrArgs, database \in StrArgs :
        WriteAll(WRec("startup", user, database, startup_bytes(user, database)))

\* Lines 136-146: the first pass hashes password and user, the second the hex
\* of the first digest and the salt.
Md5Password ==
    /\ Len(out) < MaxWrites
    /\ \E user \in StrArgs, password \in StrArgs, salt \in Salts :
        \E output \in Digests, final \in Digests :
            WriteAll(WRec("md5_password", <<>>, <<>>, md5_password_bytes(final)))

CustomProtocolResponseOk ==
    /\ Len(out) < MaxWrites
    /\ \E message \in Messages :
        WriteAll(WRec("custom_protocol_response_ok", <<>>, <<>>,
                      custom_protocol_response_ok_bytes(message)))

ShuttingDown ==
    /\ Len(out) < MaxWrites
    /\ WriteAll(WRec("shutting_down", <<>>, <<>>, shutting_down_bytes))

\* The peer goes away: every later write fails.
BreakStream ==
    /\ ~broken
    /\ broken' = TRUE
    /\ UNCHANGED <<out, wret, reparsed, parseVars, readVars>>

\* The receiver of a startup packet drops the length and the protocol version
\* and hands the rest to parse_startup.
ParseWritten ==
    /\ reparsed = <<>>
    /\ \E k \in 1..Len(out) :
          /\ out[k].op = "startup"
          /\ reparsed' = <<[user |-> out[k].user, database |-> out[k].database,
                            ret |-> parse_startup(SubSeq(out[k].bytes, 9, Len(out[k].bytes)))]>>
    /\ UNCHANGED <<out, broken, wret, parseVars, readVars>>

InitEnc ==
    /\ out = <<>>
    /\ broken = FALSE
    /\ wret = "none"
    /\ reparsed = <<>>
    /\ IdleParse
    /\ IdleRead

NextEnc ==
    \/ AuthOk
    \/ BackendKeyData
    \/ ReadyForQuery
    \/ Startup
    \/ Md5Password
    \/ CustomProtocolResponseOk
    \/ ShuttingDown
    \/ BreakStream
    \/ ParseWritten

SpecEnc == InitEnc /\ [][NextEnc]_vars

\* A string of ASCII characters with no null byte.
AsciiNoNull(str) == \A i \in 1..Len(str) : str[i] > 0 /\ str[i] < 128

\* C1: for ASCII user and database without null bytes (empty included), the
\* bytes startup writes, less the length and the protocol version, parse to
\* exactly {"user": user, "database": database}.
C1_StartupRoundTrip ==
    \A i \in 1..Len(reparsed) :
        LET r == reparsed[i]
        IN  (AsciiNoNull(r.user) /\ AsciiNoNull(r.database))
                => r.ret = POk([n \in {UserKey, DatabaseKey} |->
                                   IF n = UserKey THEN r.user ELSE r.database])

\* The value of four big-endian bytes that encode a number that is not
\* negative.
BigEndian(b) == b[1] * 16777216 + b[2] * 65536 + b[3] * 256 + b[4]

\* A frame with a tag: the length field is the number of bytes after it, plus 4.
TaggedLengthOk(f) ==
    /\ Len(f) >= 5
    /\ f[2] < 128
    /\ BigEndian(SubSeq(f, 2, 5)) = (Len(f) - 5) + 4

\* The startup packet has no tag.
UntaggedLengthOk(f) ==
    /\ Len(f) >= 4
    /\ f[1] < 128
    /\ BigEndian(SubSeq(f, 1, 4)) = (Len(f) - 4) + 4

\* C2: in every frame any of the seven encoders writes, the length field is
\* the number of bytes that follow it in the frame, plus 4.
C2_LengthFieldExact ==
    \A k \in 1..Len(out) :
        LET w == out[k].bytes
        IN  IF out[k].op = "startup" THEN UntaggedLengthOk(w)
            ELSE IF out[k].op = "custom_protocol_response_ok"
            THEN /\ Len(w) >= 6
                 /\ TaggedLengthOk(SubSeq(w, 1, Len(w) - 6))
                 /\ TaggedLengthOk(SubSeq(w, Len(w) - 5, Len(w)))
            ELSE TaggedLengthOk(w)

=============================================================================
